---- MODULE Spec2Model ----
(***************************************************************************)
(* The selection overlay of the designer simulator                         *)
(* (packages/designer/src/simulator/selection.tsx).                         *)
(*                                                                         *)
(* The workspace store (selection set, prototype registry, active file,    *)
(* drag source) and the designer viewport are the state; the rendered      *)
(* element tree is the variable view; the operations are a render of       *)
(* SelectionTools and the user gestures the rendered tree accepts.         *)
(***************************************************************************)
EXTENDS Integers, Sequences, FiniteSets, TLC

VARIABLES
    selected,             \* workspace.selectSource.selected
    componentPrototypes,  \* workspace.componentPrototypes
    activeViewFile,       \* workspace.activeViewFile
    dragSource,           \* workspace.dragSource
    viewportWidth,        \* designer.viewport.width
    view,                 \* the element tree of the last render of SelectionTools
    calls,                \* the store mutators called by the last step
    dragging,             \* the browser's drag session: the item whose handle is dragged
    lastEvent             \* the kind of the last step

storeVars == <<selected, componentPrototypes, activeViewFile, dragSource>>

vars == <<selected, componentPrototypes, activeViewFile, dragSource,
          viewportWidth, view, calls, dragging, lastEvent>>

(***************************************************************************)
(* Bounds of the model.                                                    *)
(***************************************************************************)
MaxDepth == 3       \* nodes of the document, a chain root .. leaf
MaxSelected == 2    \* items selected at once
MaxChildren == 2    \* length of a childrenName array
MaxCoord == 2       \* coordinates reach 50 * MaxCoord + 1

boundingOffset == 100
topThreshold == 20

(***************************************************************************)
(* Data: bounding rectangles, selected items, prototypes.                  *)
(***************************************************************************)
NoBounding == [present |-> FALSE, left |-> 0, top |-> 0, width |-> 0, height |-> 0]

Rect(l, t, w, h) == [present |-> TRUE, left |-> l, top |-> t, width |-> w, height |-> h]

TypeNames == {"Page", "Box", "Text"}

\* childrenName?: string | string[]; str is the string form, arr the array form
Undefined == [kind |-> "undefined", str |-> "", arr |-> <<>>]

NoProto == [present |-> FALSE, type |-> "", title |-> "", childrenName |-> Undefined]

SeqsUpTo(S, n) == UNION {[1..k -> S] : k \in 0..n}

ChildDecls ==
    {Undefined}
    \cup {[kind |-> "string", str |-> c, arr |-> <<>>] : c \in {"", "Box", "Text"}}
    \cup {[kind |-> "array", str |-> "", arr |-> s] :
              s \in SeqsUpTo({"Box", "Text"}, MaxChildren)}

ProtoSet ==
    {NoProto}
    \cup [present : {TRUE}, type : {"page", "element"}, title : {"", "T"},
          childrenName : ChildDecls]

NoItem == [id |-> 0, name |-> "", filename |-> "", bounding |-> NoBounding, parents |-> <<>>]

NoDragSource == [present |-> FALSE, data |-> NoItem]

(***************************************************************************)
(* Calls into the workspace store. A handler is the sequence of calls that *)
(* firing it makes.                                                        *)
(***************************************************************************)
SelectCall(item) == [op |-> "select", data |-> item, name |-> ""]

InsertCall(name) == [op |-> "insertToSelectedNode", data |-> NoItem, name |-> name]

DragSetCall(item) == [op |-> "dragSource.set", data |-> item, name |-> ""]

DragClearCall == [op |-> "dragSource.clear", data |-> NoItem, name |-> ""]

(***************************************************************************)
(* NameSelector: the name and, below it, one entry per ancestor.           *)
(***************************************************************************)
\* parents.slice(from)
Slice(s, from) == SubSeq(s, from + 1, Len(s))

\* Faulty variant: the clicked ancestor stays in its own list of parents (slice(index)).
NameSelectorItemKeepsSelf(parents, index) ==
    LET parent == parents[index + 1]
    IN  [id |-> parent.id, name |-> parent.name, filename |-> parent.filename,
         bounding |-> parent.bounding, parents |-> Slice(parents, index)]

\* { ...parent, parents: parents.slice(index + 1) }, index counted from 0
NameSelectorItem(parents, index) ==
    LET parent == parents[index + 1]
    IN  [id |-> parent.id, name |-> parent.name, filename |-> parent.filename,
         bounding |-> parent.bounding, parents |-> Slice(parents, index + 1)]

\* onSelect={(item) => { workspace.selectSource.select(item); }}
OnNameSelect(item) == <<SelectCall(item)>>

NameSelector(label, parents) ==
    [label |-> label,
     entries |-> [i \in 1..Len(parents) |->
                    [key |-> parents[i].id,
                     text |-> parents[i].name,
                     onClick |-> OnNameSelect(NameSelectorItem(parents, i - 1))]]]

(***************************************************************************)
(* InsertedDropdown and InsertedItem.                                      *)
(***************************************************************************)
\* InsertedItem takes label, icon and description from its props and passes
\* nothing else to the Box it renders: the onClick it is given is dropped.
InsertedItem(label, onClick) == [label |-> label, onClick |-> <<>>]

\* onSelect={(name) => { workspace.insertToSelectedNode(name); }}
OnInsertSelect(name) == <<InsertCall(name)>>

InsertedDropdown(options) ==
    [i \in 1..Len(options) |->
        [key |-> options[i].name,
         item |-> InsertedItem(options[i].label, OnInsertSelect(options[i].name))]]

(***************************************************************************)
(* SelectionBox.                                                           *)
(***************************************************************************)
\* workspace.componentPrototypes.get(name): undefined when not registered
GetPrototype(protos, name) == IF name \in DOMAIN protos THEN protos[name] ELSE NoProto

\* prototype?.type === 'page'
IsPage(prototype) == prototype.present /\ prototype.type = "page"

\* if (prototype?.childrenName): '' and undefined are falsy, an array is truthy
DeclaresChildren(prototype) ==
    /\ prototype.present
    /\ \/ prototype.childrenName.kind = "array"
       \/ prototype.childrenName.kind = "string" /\ prototype.childrenName.str # ""

\* Array.isArray(childrenName) ? childrenName : [childrenName]
ChildrenNames(childrenName) ==
    IF childrenName.kind = "array" THEN childrenName.arr ELSE <<childrenName.str>>

\* Faulty variant: the label is the child prototype's title, with no fallback to the name.
InsertedDataTitleOnly(protos, child) ==
    [name |-> child, label |-> GetPrototype(protos, child).title]

\* label: proto?.title || child
InsertedData(protos, child) ==
    LET proto == GetPrototype(protos, child)
    IN  [name |-> child,
         label |-> IF proto.present /\ proto.title # "" THEN proto.title ELSE child]

InsertedList(protos, prototype) ==
    IF DeclaresChildren(prototype)
    THEN LET names == ChildrenNames(prototype.childrenName)
         IN  [i \in 1..Len(names) |-> InsertedData(protos, names[i])]
    ELSE <<>>

\* Faulty variant: the right edge is compared with <= instead of <.
SelectionHelpersAlignInclusive(bounding, vw) ==
    IF bounding.left + bounding.width + boundingOffset <= vw THEN "top-left"
    ELSE IF bounding.top < topThreshold THEN "inner-top-right"
    ELSE "top-right"

SelectionHelpersAlign(bounding, vw) ==
    IF bounding.left + bounding.width + boundingOffset < vw THEN "top-left"
    ELSE IF bounding.top < topThreshold THEN "inner-top-right"
    ELSE "top-right"

NoStyle == [display |-> "none", width |-> 0, height |-> 0, translate |-> <<0, 0>>,
            colorActive |-> ""]

BoxStyle(bounding, isFromCurrentFile) ==
    [display |-> "block",
     width |-> bounding.width,
     height |-> bounding.height,
     translate |-> <<bounding.left, bounding.top>>,
     colorActive |-> IF isFromCurrentFile THEN "brand" ELSE "gray-60"]

NoHandle == [present |-> FALSE, onDragStart |-> <<>>, onDragEnd |-> <<>>]

\* onDragStart: workspace.dragSource.set(data)
OnDragStart(data) == <<DragSetCall(data)>>

\* Faulty variant: the drag-end handler leaves the drag source as it is.
OnDragEndKeeps == <<>>

\* onDragEnd: workspace.dragSource.clear()
OnDragEnd == <<DragClearCall>>

\* Faulty variant: the handle is rendered whatever the type.
DragHandleAlways(isPage, data) ==
    [present |-> TRUE, onDragStart |-> OnDragStart(data), onDragEnd |-> OnDragEnd]

\* icon={!isPage && <HolderOutlined draggable ... />}
DragHandle(isPage, data) ==
    IF isPage THEN NoHandle
    ELSE [present |-> TRUE, onDragStart |-> OnDragStart(data), onDragEnd |-> OnDragEnd]

\* Faulty variant: the actions are rendered whatever the type.
SelectionToolSetAlways(isPage, actions) == actions

\* <SelectionToolSet>{!isPage && actions}</SelectionToolSet>
SelectionToolSet(isPage, actions) == IF isPage THEN <<>> ELSE actions

NoNameSelector == [label |-> "", entries |-> <<>>]

NoHelpers ==
    [shown |-> FALSE, align |-> "", handle |-> NoHandle, nameSelector |-> NoNameSelector,
     otherFileInfo |-> FALSE, toolSet |-> <<>>, dropdownShown |-> FALSE, dropdown |-> <<>>]

SelectionHelpers(align, isPage, actions, data, isFromCurrentFile, insertedList) ==
    [shown |-> TRUE,
     align |-> align,
     handle |-> DragHandle(isPage, data),
     nameSelector |-> NameSelector(data.name, data.parents),
     otherFileInfo |-> ~isFromCurrentFile,
     toolSet |-> SelectionToolSet(isPage, actions),
     dropdownShown |-> Len(insertedList) > 0,
     dropdown |-> IF Len(insertedList) > 0 THEN InsertedDropdown(insertedList) ELSE <<>>]

\* Faulty variant: no box when either of width and height is zero.
HasNoSizeEither(bounding) == bounding.height = 0 \/ bounding.width = 0

\* !data.bounding.height && !data.bounding.width
HasNoSize(bounding) == bounding.height = 0 /\ bounding.width = 0

\* return null
NullBox(data) ==
    [rendered |-> FALSE, data |-> data, style |-> NoStyle, helpers |-> NoHelpers]

SelectionBox(showActions, actions, data, protos, activeFile, vw) ==
    IF ~data.bounding.present THEN NullBox(data)
    ELSE IF HasNoSize(data.bounding) THEN NullBox(data)
    ELSE
        LET prototype == GetPrototype(protos, data.name)
            isPage == IsPage(prototype)
            insertedList == InsertedList(protos, prototype)
            align == SelectionHelpersAlign(data.bounding, vw)
            isFromCurrentFile == data.filename = activeFile
        IN  [rendered |-> TRUE,
             data |-> data,
             style |-> BoxStyle(data.bounding, isFromCurrentFile),
             helpers |-> IF showActions
                         THEN SelectionHelpers(align, isPage, actions, data,
                                               isFromCurrentFile, insertedList)
                         ELSE NoHelpers]

(***************************************************************************)
(* SelectionTools.                                                         *)
(***************************************************************************)
\* actions = ['viewSource', 'copyNode', 'deleteNode'], each its widget's element
DefaultActions == <<"viewSource", "copyNode", "deleteNode">>

\* Faulty variant: the actions are shown whenever anything is selected.
SelectionToolsShowsForAny(sel, protos, activeFile, vw) ==
    [i \in 1..Len(sel) |->
        [key |-> sel[i].id,
         box |-> SelectionBox(Len(sel) >= 1, DefaultActions, sel[i], protos, activeFile, vw)]]

SelectionTools(sel, protos, activeFile, vw) ==
    [i \in 1..Len(sel) |->
        [key |-> sel[i].id,
         box |-> SelectionBox(Len(sel) = 1, DefaultActions, sel[i], protos, activeFile, vw)]]

(***************************************************************************)
(* The workspace store's mutators.                                         *)
(***************************************************************************)
\* selectSource.select(item): the selection becomes that item
select(sel, item) == <<item>>

\* workspace.insertToSelectedNode(name): the selection stays
insertToSelectedNode(sel, name) == sel

\* dragSource.set(data)
dragSourceSet(data) == [present |-> TRUE, data |-> data]

\* dragSource.clear()
dragSourceClear == NoDragSource

SelectedAfterCall(sel, call) ==
    IF call.op = "select" THEN select(sel, call.data)
    ELSE IF call.op = "insertToSelectedNode" THEN insertToSelectedNode(sel, call.name)
    ELSE sel

DragSourceAfterCall(ds, call) ==
    IF call.op = "dragSource.set" THEN dragSourceSet(call.data)
    ELSE IF call.op = "dragSource.clear" THEN dragSourceClear
    ELSE ds

RECURSIVE SelectedAfter(_, _)
SelectedAfter(sel, cs) ==
    IF cs = <<>> THEN sel ELSE SelectedAfter(SelectedAfterCall(sel, Head(cs)), Tail(cs))

RECURSIVE DragSourceAfter(_, _)
DragSourceAfter(ds, cs) ==
    IF cs = <<>> THEN ds ELSE DragSourceAfter(DragSourceAfterCall(ds, Head(cs)), Tail(cs))

(***************************************************************************)
(* The document the items are selected from: a chain of MaxDepth nodes,    *)
(* node 1 the root. An item's parents are its ancestors, nearest first.    *)
(***************************************************************************)
Nodes == 1..MaxDepth

NodeName(k) == IF k = 1 THEN "Page" ELSE IF k % 2 = 0 THEN "Box" ELSE "Text"

FileNames == {"page.js", "other.js"}

NodeFile(k) == IF k % 3 = 0 THEN "other.js" ELSE "page.js"

Ancestor(k, bnd) ==
    [id |-> k, name |-> NodeName(k), filename |-> NodeFile(k), bounding |-> bnd[k]]

Node(k, bnd) ==
    [id |-> k, name |-> NodeName(k), filename |-> NodeFile(k), bounding |-> bnd[k],
     parents |-> [i \in 1..(k - 1) |-> Ancestor(k - i, bnd)]]

\* selections: up to MaxSelected distinct nodes, in any order
Selections ==
    {s \in SeqsUpTo(Nodes, MaxSelected) : \A i, j \in DOMAIN s : i # j => s[i] # s[j]}

Unmounted == [mounted |-> FALSE, boxes |-> <<>>]

NoEvent == [kind |-> "none", box |-> 0, index |-> 0]

Event(kind, b, i) == [kind |-> kind, box |-> b, index |-> i]

(***************************************************************************)
(* Steps.                                                                  *)
(***************************************************************************)
Rendered == SelectionTools(selected, componentPrototypes, activeViewFile, viewportWidth)

InSync == view = [mounted |-> TRUE, boxes |-> Rendered]

\* Faulty variant: a render sets the drag source.
RenderCallsSetDragSource == <<DragSetCall(NoItem)>>

\* The store mutators the render functions call: SelectionTools, SelectionBox
\* and the components below them read the store and call none.
RenderCalls == <<>>

\* The calls cs reach the store.
Store(cs) ==
    /\ calls' = cs
    /\ selected' = SelectedAfter(selected, cs)
    /\ dragSource' = DragSourceAfter(dragSource, cs)
    /\ UNCHANGED <<componentPrototypes, activeViewFile>>

\* The observer renders SelectionTools when what it reads has changed.
Render ==
    /\ ~InSync
    /\ Store(RenderCalls)
    /\ view' = [mounted |-> TRUE,
                boxes |-> SelectionTools(selected', componentPrototypes', activeViewFile',
                                         viewportWidth)]
    /\ lastEvent' = Event("render", 0, 0)
    /\ UNCHANGED <<viewportWidth, dragging>>

\* User events reach the handlers of the current render; the browser delivers
\* no click while a drag is under way.

\* A click on entry i (from 0) of the name selector of box b.
ClickNameEntry(b, i) ==
    /\ InSync
    /\ ~dragging.present
    /\ b \in DOMAIN view.boxes
    /\ view.boxes[b].box.helpers.shown
    /\ i + 1 \in DOMAIN view.boxes[b].box.helpers.nameSelector.entries
    /\ Store(view.boxes[b].box.helpers.nameSelector.entries[i + 1].onClick)
    /\ lastEvent' = Event("nameEntry", b, i)
    /\ UNCHANGED <<viewportWidth, view, dragging>>

\* A click on entry i (from 0) of the insert-child menu of box b.
ClickInsertedItem(b, i) ==
    /\ InSync
    /\ ~dragging.present
    /\ b \in DOMAIN view.boxes
    /\ view.boxes[b].box.helpers.shown
    /\ i + 1 \in DOMAIN view.boxes[b].box.helpers.dropdown
    /\ Store(view.boxes[b].box.helpers.dropdown[i + 1].item.onClick)
    /\ lastEvent' = Event("insertedItem", b, i)
    /\ UNCHANGED <<viewportWidth, view, dragging>>

\* The drag handle of box b starts a drag.
DragStart(b) ==
    /\ InSync
    /\ ~dragging.present
    /\ b \in DOMAIN view.boxes
    /\ view.boxes[b].box.helpers.shown
    /\ view.boxes[b].box.helpers.handle.present
    /\ Store(view.boxes[b].box.helpers.handle.onDragStart)
    /\ dragging' = [present |-> TRUE, data |-> view.boxes[b].box.data]
    /\ lastEvent' = Event("dragStart", b, 0)
    /\ UNCHANGED <<viewportWidth, view>>

\* The drag ends on the handle it started on.
DragEnd(b) ==
    /\ dragging.present
    /\ b \in DOMAIN view.boxes
    /\ view.boxes[b].box.helpers.handle.present
    /\ view.boxes[b].box.data.id = dragging.data.id
    /\ Store(view.boxes[b].box.helpers.handle.onDragEnd)
    /\ dragging' = NoDragSource
    /\ lastEvent' = Event("dragEnd", b, 0)
    /\ UNCHANGED <<viewportWidth, view>>

(***************************************************************************)
(* Spec: the overlay over selections of the document.                      *)
(***************************************************************************)
PageProto ==
    [present |-> TRUE, type |-> "page", title |-> "",
     childrenName |-> [kind |-> "array", str |-> "", arr |-> <<"Box", "Text">>]]

ContainerProto ==
    [present |-> TRUE, type |-> "element", title |-> "T",
     childrenName |-> [kind |-> "string", str |-> "Text", arr |-> <<>>]]

LeafProto ==
    [present |-> TRUE, type |-> "element", title |-> "T", childrenName |-> Undefined]

DocProtos == {NoProto, PageProto, ContainerProto, LeafProto}

DocBoundings == {NoBounding, Rect(0, 0, 100, 10)}

DocViewportWidth == 2 * boundingOffset

Init ==
    /\ \E bnd \in [Nodes -> DocBoundings], s \in Selections :
           selected = [i \in DOMAIN s |-> Node(s[i], bnd)]
    /\ componentPrototypes \in [TypeNames -> DocProtos]
    /\ activeViewFile = "page.js"
    /\ dragSource = NoDragSource
    /\ viewportWidth = DocViewportWidth
    /\ view = Unmounted
    /\ calls = <<>>
    /\ dragging = NoDragSource
    /\ lastEvent = NoEvent

Boxes == 1..MaxSelected

Entries == 0..(MaxDepth - 1)

Next ==
    \/ Render
    \/ \E b \in Boxes, i \in Entries : ClickNameEntry(b, i)
    \/ \E b \in Boxes, i \in Entries : ClickInsertedItem(b, i)
    \/ \E b \in Boxes : DragStart(b)
    \/ \E b \in Boxes : DragEnd(b)

Spec == Init /\ [][Next]_vars

(***************************************************************************)
(* SpecAlign: one selected item, over bounding rectangles and viewport     *)
(* widths around the offset and the top threshold.                         *)
(***************************************************************************)
Lengths == {50 * k + d : k \in 0..MaxCoord, d \in {0, 1}} \cup {49}

Lefts == Lengths \cup {-1}

Tops == {-1, 0, topThreshold - 1, topThreshold, topThreshold + 1}

Heights == {0, 10}

ViewportWidths == {boundingOffset + 50 * k + d : k \in 0..(2 * MaxCoord), d \in {-1, 0, 1}}

AlignBoundings ==
    {NoBounding}
    \cup {Rect(l, t, w, h) : l \in Lefts, t \in Tops, w \in Lengths, h \in Heights}

\* The designer's viewport takes another width.
Resize(w) ==
    /\ w # viewportWidth
    /\ viewportWidth' = w
    /\ lastEvent' = Event("resize", 0, 0)
    /\ calls' = <<>>
    /\ UNCHANGED <<selected, componentPrototypes, activeViewFile, dragSource, view, dragging>>

InitAlign ==
    /\ \E b \in AlignBoundings : selected = <<Node(1, [k \in Nodes |-> b])>>
    /\ componentPrototypes = [n \in TypeNames |-> NoProto]
    /\ activeViewFile = "page.js"
    /\ dragSource = NoDragSource
    /\ viewportWidth \in ViewportWidths
    /\ view = Unmounted
    /\ calls = <<>>
    /\ dragging = NoDragSource
    /\ lastEvent = NoEvent

NextAlign ==
    \/ Render
    \/ \E w \in ViewportWidths : Resize(w)

SpecAlign == InitAlign /\ [][NextAlign]_vars

(***************************************************************************)
(* SpecInsert: the root selected, alone or with its child, over the        *)
(* prototypes of the root and of a child type; type Text is not registered.*)
(***************************************************************************)
ChildProtos == {p \in ProtoSet : p.childrenName = Undefined /\ p.type # "page"}

InsertRegistries ==
    {[n \in TypeNames |-> IF n = "Page" THEN p ELSE IF n = "Box" THEN c ELSE NoProto] :
        p \in ProtoSet, c \in ChildProtos}

InitInsert ==
    /\ \E s \in {<<1>>, <<1, 2>>} :
           selected = [i \in DOMAIN s |-> Node(s[i], [k \in Nodes |-> Rect(0, 0, 100, 10)])]
    /\ componentPrototypes \in InsertRegistries
    /\ activeViewFile = "page.js"
    /\ dragSource = NoDragSource
    /\ viewportWidth = DocViewportWidth
    /\ view = Unmounted
    /\ calls = <<>>
    /\ dragging = NoDragSource
    /\ lastEvent = NoEvent

Children == 0..MaxChildren

NextInsert ==
    \/ Render
    \/ \E b \in Boxes, i \in Children : ClickInsertedItem(b, i)

SpecInsert == InitInsert /\ [][NextInsert]_vars

(***************************************************************************)
(* Properties.                                                             *)
(***************************************************************************)
AfterRender == lastEvent.kind = "render"

\* The prototype registered for an item's type is of type 'page'.
PageType(name) ==
    componentPrototypes[name].present /\ componentPrototypes[name].type = "page"

\* C1: a render of SelectionTools yields one SelectionBox per selected item,
\* keyed by the item's id and given that item, and a box holds the toolbar only
\* when exactly one item is selected.
C1_OneBoxPerItem ==
    AfterRender =>
        /\ Len(view.boxes) = Len(selected)
        /\ \A i \in DOMAIN view.boxes :
              /\ view.boxes[i].key = selected[i].id
              /\ view.boxes[i].box.data = selected[i]
              /\ view.boxes[i].box.helpers.shown => Len(selected) = 1

C1_Witness ==
    /\ AfterRender
    /\ Len(selected) = 2
    /\ \A i \in DOMAIN view.boxes :
          view.boxes[i].box.rendered /\ ~view.boxes[i].box.helpers.shown

\* C2: SelectionBox renders nothing for an item without a bounding rectangle or
\* with width and height both zero, and for every other item renders the box
\* with display block, the rectangle's width and height, and a translation to
\* its left and top.
C2_BoxRenderedIffSized ==
    AfterRender =>
        \A i \in DOMAIN view.boxes :
            LET bounding == selected[i].bounding
                box == view.boxes[i].box
            IN  IF ~bounding.present \/ (bounding.width = 0 /\ bounding.height = 0)
                THEN ~box.rendered
                ELSE /\ box.rendered
                     /\ box.style.display = "block"
                     /\ box.style.width = bounding.width
                     /\ box.style.height = bounding.height
                     /\ box.style.translate = <<bounding.left, bounding.top>>

C2_Witness ==
    /\ AfterRender
    /\ Len(selected) = 1
    /\ selected[1].bounding.present
    /\ selected[1].bounding.width = 0
    /\ selected[1].bounding.height # 0
    /\ view.boxes[1].box.rendered

C4_NameEntrySelectsAncestor ==
    [][lastEvent'.kind = "nameEntry" =>
        LET i == lastEvent'.index
            p == selected[lastEvent'.box].parents
            item == [id |-> p[i + 1].id, name |-> p[i + 1].name,
                     filename |-> p[i + 1].filename, bounding |-> p[i + 1].bounding,
                     parents |-> [k \in 1..(Len(p) - i - 1) |-> p[i + 1 + k]]]
        IN  /\ calls' = <<[op |-> "select", data |-> item, name |-> ""]>>
            /\ selected' = <<item>>
            /\ Len(selected'[1].parents) = Len(p) - i - 1
            /\ Len(selected'[1].parents) < Len(p)]_vars

C4_Witness ==
    /\ lastEvent.kind = "nameEntry"
    /\ lastEvent.index = 0
    /\ Len(calls) = 1
    /\ calls[1].op = "select"
    /\ selected = <<calls[1].data>>
    /\ Len(selected[1].parents) = 1

\* C5: a click on an entry of the insert-child menu calls insertToSelectedNode
\* once, with the type name of that entry.
C5_InsertedItemClickInserts ==
    [][lastEvent'.kind = "insertedItem" =>
        LET entry == view.boxes[lastEvent'.box].box.helpers.dropdown[lastEvent'.index + 1]
        IN  calls' = <<[op |-> "insertToSelectedNode", data |-> NoItem,
                        name |-> entry.key]>>]_vars

\* C6: the toolbar of an item whose prototype is of type 'page' has no drag
\* handle, the toolbar of every other item has one, and the drag source never
\* holds an item of type 'page'.
C6_NoHandleForPage ==
    /\ \A i \in DOMAIN view.boxes :
          LET box == view.boxes[i].box
          IN  box.helpers.shown => (box.helpers.handle.present <=> ~PageType(box.data.name))
    /\ dragSource.present => ~PageType(dragSource.data.name)

C6_Witness ==
    /\ Len(view.boxes) = 1
    /\ view.boxes[1].box.helpers.shown
    /\ PageType(view.boxes[1].box.data.name)
    /\ ~view.boxes[1].box.helpers.handle.present

\* C7 as stated: every toolbar holds the name selector and the action elements,
\* whatever the item's prototype.
C7_ToolbarAlwaysHasActions ==
    \A i \in DOMAIN view.boxes :
        LET box == view.boxes[i].box
        IN  box.helpers.shown =>
                /\ box.helpers.nameSelector.label = box.data.name
                /\ Len(box.helpers.nameSelector.entries) = Len(box.data.parents)
                /\ box.helpers.toolSet = DefaultActions

\* C7: every toolbar holds the name selector; it holds the action elements
\* when the item's prototype is not of type 'page' and none when it is.
C7_ToolbarHasActionsUnlessPage ==
    \A i \in DOMAIN view.boxes :
        LET box == view.boxes[i].box
        IN  box.helpers.shown =>
                /\ box.helpers.nameSelector.label = box.data.name
                /\ Len(box.helpers.nameSelector.entries) = Len(box.data.parents)
                /\ box.helpers.toolSet =
                       IF PageType(box.data.name) THEN <<>> ELSE DefaultActions

C7_Witness ==
    /\ Len(view.boxes) = 1
    /\ view.boxes[1].box.helpers.shown
    /\ PageType(view.boxes[1].box.data.name)
    /\ view.boxes[1].box.helpers.toolSet = <<>>
    /\ view.boxes[1].box.helpers.nameSelector.label = view.boxes[1].box.data.name
    /\ Len(view.boxes[1].box.helpers.nameSelector.entries) >= 1

\* C8: the drag source holds an item exactly while a drag of the handle is
\* under way, it is then the item of the dragged handle, and it is empty after
\* a drag-end.
C8_DragSourceFollowsDrag ==
    /\ dragSource.present <=> dragging.present
    /\ dragSource.present => dragSource.data = dragging.data
    /\ lastEvent.kind = "dragStart" =>
          dragSource.present /\ dragSource.data = selected[lastEvent.box]
    /\ lastEvent.kind = "dragEnd" => ~dragSource.present

C8_Witness ==
    /\ lastEvent.kind = "dragEnd"
    /\ ~dragSource.present
    /\ calls = <<DragClearCall>>

\* C9: a render leaves the selection, the prototypes, the active file and the
\* drag source as they are; they change only in a step of a user event, and
\* then by calls of select, insertToSelectedNode, dragSource.set or
\* dragSource.clear.
C9_RenderLeavesStore ==
    [][/\ lastEvent'.kind = "render" => storeVars' = storeVars /\ calls' = <<>>
       /\ storeVars' # storeVars =>
             /\ lastEvent'.kind \in {"nameEntry", "insertedItem", "dragStart", "dragEnd"}
             /\ calls' # <<>>
             /\ \A k \in DOMAIN calls' :
                   calls'[k].op \in {"select", "insertToSelectedNode",
                                      "dragSource.set", "dragSource.clear"}]_vars

C9_Witness ==
    /\ AfterRender
    /\ Len(selected) = 1
    /\ view.boxes[1].box.helpers.shown
    /\ view.boxes[1].box.data = selected[1]
    /\ Len(selected[1].parents) < MaxDepth - 1
    /\ selected[1].id # 1

\* The child-type names a prototype declares: the name, or the names of the list.
Declared(prototype) ==
    IF ~prototype.present THEN <<>>
    ELSE IF prototype.childrenName.kind = "array" THEN prototype.childrenName.arr
    ELSE IF prototype.childrenName.kind = "string" /\ prototype.childrenName.str # ""
         THEN <<prototype.childrenName.str>>
    ELSE <<>>

\* C10: the insert-child menu has one entry per child-type name the item's
\* prototype declares, in order, named by it and labelled with the child
\* prototype's title when that is registered with a title and with the name
\* otherwise; the menu is there exactly when the toolbar is and a name is
\* declared.
C10_InsertedListFollowsDeclaration ==
    AfterRender =>
        \A i \in DOMAIN view.boxes :
            LET box == view.boxes[i].box
                declared == Declared(componentPrototypes[selected[i].name])
            IN  /\ box.helpers.dropdownShown <=> (box.helpers.shown /\ Len(declared) > 0)
                /\ box.helpers.shown =>
                      /\ Len(box.helpers.dropdown) = Len(declared)
                      /\ \A k \in DOMAIN declared :
                            /\ box.helpers.dropdown[k].key = declared[k]
                            /\ box.helpers.dropdown[k].item.label =
                                  IF /\ componentPrototypes[declared[k]].present
                                     /\ componentPrototypes[declared[k]].title # ""
                                  THEN componentPrototypes[declared[k]].title
                                  ELSE declared[k]

C10_Witness ==
    /\ AfterRender
    /\ Len(selected) = 1
    /\ view.boxes[1].box.helpers.dropdownShown
    /\ Len(view.boxes[1].box.helpers.dropdown) = 2
    /\ view.boxes[1].box.helpers.dropdown[1].item.label = "T"
    /\ view.boxes[1].box.helpers.dropdown[2].item.label = "Text"

====
